---- MODULE Spec2Model ----
(***************************************************************************)
(* A model of darknet.py: parse_cfg, create_modules, Darknet.forward and   *)
(* Darknet.load_weights.  Text is a sequence of one-character strings,     *)
(* a dict is a function whose domain is its key set, a list is a sequence  *)
(* (0-based Python index k is element k+1).                                *)
(***************************************************************************)
EXTENDS Integers, Sequences, FiniteSets, TLC

VARIABLES
    pc,           \* which routine is running and how it ended
    err,          \* the exception that ended it ("" when none)
    nlines,       \* parse_cfg: lines of the file consumed so far
    blocks,       \* parse_cfg: blocks
    block,        \* parse_cfg: block
    line,         \* parse_cfg: line (the last line the loop took)
    i,            \* create_modules: loop index over blocks[1:]
    net_info,     \* create_modules: blocks[0]
    in_channel,   \* create_modules: in_channel
    out_channel,  \* create_modules: out_channel
    out_channels, \* create_modules: out_channels
    module_list,  \* create_modules: module_list (Darknet.module_list)
    fi,           \* forward: loop index over module_list
    x,            \* forward: x
    outputs,      \* forward: outputs
    detection,    \* forward: detection
    store,        \* forward: contents of every tensor storage
    li,           \* load_weights: loop index over module_list
    weights,      \* load_weights: weights
    ptr,          \* load_weights: ptr
    params        \* load_weights: the parameter tensors of each module

vars == <<pc, err, nlines, blocks, block, line, i, net_info, in_channel, out_channel,
          out_channels, module_list, fi, x, outputs, detection, store,
          li, weights, ptr, params>>

parseVars == <<nlines, blocks, block, line>>
buildVars == <<i, net_info, in_channel, out_channel, out_channels, module_list>>
fwdVars == <<fi, x, outputs, detection, store>>
loadVars == <<li, weights, ptr, params>>

----------------------------------------------------------------------------
(* Bounds of the model                                                     *)

MaxLines == 3
MaxLineLen == 3

----------------------------------------------------------------------------
(* Python str and dict primitives                                          *)

\* the whitespace str.strip() removes, as far as the alphabets below hold it
IsSpace(c) == c \in {" ", "\t"}

RECURSIVE LStrip(_)
LStrip(s) ==
    IF s = <<>> THEN s
    ELSE IF IsSpace(Head(s)) THEN LStrip(Tail(s)) ELSE s

RECURSIVE RStrip(_)
RStrip(s) ==
    IF s = <<>> THEN s
    ELSE IF IsSpace(s[Len(s)]) THEN RStrip(SubSeq(s, 1, Len(s) - 1)) ELSE s

\* str.strip()
Strip(s) == RStrip(LStrip(s))

\* str.split(sep): always at least one part
RECURSIVE Split(_, _)
Split(s, sep) ==
    IF \A k \in 1..Len(s) : s[k] # sep THEN <<s>>
    ELSE LET k == CHOOSE k \in 1..Len(s) :
                      s[k] = sep /\ \A j \in 1..(k - 1) : s[j] # sep
         IN  <<SubSeq(s, 1, k - 1)>> \o Split(SubSeq(s, k + 1, Len(s)), sep)

EmptyDict == [k \in {} |-> <<>>]

\* d[k] = v
DictSet(d, k, v) == [q \in DOMAIN d \cup {k} |-> IF q = k THEN v ELSE d[q]]

K_type == <<"t", "y", "p", "e">>

----------------------------------------------------------------------------
(* parse_cfg                                                               *)

Chars == {"[", "=", "k", " ", "#"}

RawLines == UNION {[1..n -> Chars] : n \in 0..MaxLineLen}

\* lines 11-12: the line survives strip and the blank/comment filter
KeepLine(l) == Len(l) > 0 /\ l[1] # "#"

\* lines 15-19: a header line
ParseHeader(bs, b, ln) ==
    LET flushed == DOMAIN b # {}
        b0 == IF flushed THEN EmptyDict ELSE b
    IN  [blocks |-> IF flushed THEN Append(bs, b) ELSE bs,
         block  |-> DictSet(b0, K_type, Strip(SubSeq(ln, 2, Len(ln) - 1))),
         err    |-> ""]

\* lines 21-24: any other line
ParsePair(bs, b, ln) ==
    LET parts == Split(ln, "=")
    IN  IF Len(parts) # 2
        THEN [blocks |-> bs, block |-> b, err |-> "ValueError"]
        ELSE [blocks |-> bs,
              block  |-> DictSet(b, Strip(parts[1]), Strip(parts[2])),
              err    |-> ""]

\* lines 14-24: one iteration of the loop
ParseLine(bs, b, ln) ==
    IF ln[1] = "[" THEN ParseHeader(bs, b, ln) ELSE ParsePair(bs, b, ln)

\* lines 11-24 over the lines of a whole file
RECURSIVE ParseLoop(_, _, _)
ParseLoop(bs, b, raws) ==
    IF raws = <<>> THEN [blocks |-> bs, block |-> b, err |-> ""]
    ELSE LET l == Strip(Head(raws))
         IN  IF ~KeepLine(l) THEN ParseLoop(bs, b, Tail(raws))
             ELSE LET r == ParseLine(bs, b, l)
                  IN  IF r.err # "" THEN r ELSE ParseLoop(r.blocks, r.block, Tail(raws))

\* lines 6-27: parse_cfg on the lines of a file
ParseCfg(raws) ==
    LET r == ParseLoop(<<>>, EmptyDict, raws)
    IN  IF r.err # "" THEN r ELSE [r EXCEPT !.blocks = Append(r.blocks, r.block)]

ParseInit ==
    /\ pc = "parse" /\ err = ""
    /\ nlines = 0 /\ blocks = <<>> /\ block = EmptyDict /\ line = <<>>
    /\ i = 0 /\ net_info = EmptyDict /\ in_channel = 0 /\ out_channel = 0
    /\ out_channels = <<>> /\ module_list = <<>>
    /\ fi = 0 /\ x = <<>> /\ outputs = <<>> /\ detection = <<>> /\ store = <<>>
    /\ li = 0 /\ weights = <<>> /\ ptr = 0 /\ params = <<>>

\* the next line of the file is read, stripped, filtered and parsed
ReadLine ==
    /\ pc = "parse"
    /\ nlines < MaxLines
    /\ \E raw \in RawLines :
         LET l == Strip(raw)
             r == IF KeepLine(l) THEN ParseLine(blocks, block, l)
                  ELSE [blocks |-> blocks, block |-> block, err |-> ""]
         IN  /\ nlines' = nlines + 1
             /\ line' = IF KeepLine(l) THEN l ELSE line
             /\ blocks' = r.blocks
             /\ block' = r.block
             /\ err' = r.err
             /\ pc' = IF r.err = "" THEN "parse" ELSE "parse_raised"
    /\ UNCHANGED <<buildVars, fwdVars, loadVars>>

\* lines 25-27: end of file
ParseReturn ==
    /\ pc = "parse"
    /\ blocks' = Append(blocks, block)
    /\ pc' = "parse_returned"
    /\ UNCHANGED <<err, nlines, block, line, buildVars, fwdVars, loadVars>>

ParseNext == ReadLine \/ ParseReturn

SpecParse == ParseInit /\ [][ParseNext]_vars

----------------------------------------------------------------------------
(* Python int(), list indexing and the text of the config keys             *)

Digits == <<"0", "1", "2", "3", "4", "5", "6", "7", "8", "9">>

IsDigit(c) == \E d \in 1..10 : Digits[d] = c

DigitVal(c) == (CHOOSE d \in 1..10 : Digits[d] = c) - 1

RECURSIVE DigitsVal(_)
DigitsVal(s) ==
    IF s = <<>> THEN 0
    ELSE DigitsVal(SubSeq(s, 1, Len(s) - 1)) * 10 + DigitVal(s[Len(s)])

\* the digits of int(s) once stripped and past its sign
IntBody(s) ==
    LET t == Strip(s)
    IN  IF t # <<>> /\ t[1] \in {"-", "+"} THEN Tail(t) ELSE t

\* int(s) does not raise ValueError
IsInt(s) == IntBody(s) # <<>> /\ \A k \in 1..Len(IntBody(s)) : IsDigit(IntBody(s)[k])

\* int(s)
PyInt(s) ==
    LET t == Strip(s)
    IN  IF t[1] = "-" THEN 0 - DigitsVal(IntBody(s)) ELSE DigitsVal(IntBody(s))

RECURSIVE NatStr(_)
NatStr(n) == IF n < 10 THEN <<Digits[n + 1]>> ELSE NatStr(n \div 10) \o <<Digits[(n % 10) + 1]>>

\* str(n)
IntStr(n) == IF n < 0 THEN <<"-">> \o NatStr(0 - n) ELSE NatStr(n)

\* seq[k] does not raise IndexError
PyInRange(seq, k) == 0 - Len(seq) <= k /\ k < Len(seq)

\* seq[k], a negative k counting from the end
PyIndex(seq, k) == IF k < 0 THEN seq[Len(seq) + k + 1] ELSE seq[k + 1]

K_width == <<"w", "i", "d", "t", "h">>
K_batch_normalize == <<"b", "a", "t", "c", "h", "_", "n", "o", "r", "m", "a", "l", "i", "z", "e">>
K_filters == <<"f", "i", "l", "t", "e", "r", "s">>
K_size == <<"s", "i", "z", "e">>
K_stride == <<"s", "t", "r", "i", "d", "e">>
K_pad == <<"p", "a", "d">>
K_activation == <<"a", "c", "t", "i", "v", "a", "t", "i", "o", "n">>
K_from == <<"f", "r", "o", "m">>
K_layers == <<"l", "a", "y", "e", "r", "s">>
K_mask == <<"m", "a", "s", "k">>
K_anchors == <<"a", "n", "c", "h", "o", "r", "s">>
K_classes == <<"c", "l", "a", "s", "s", "e", "s">>

T_net == <<"n", "e", "t">>
T_convolutional == <<"c", "o", "n", "v", "o", "l", "u", "t", "i", "o", "n", "a", "l">>
T_shortcut == <<"s", "h", "o", "r", "t", "c", "u", "t">>
T_upsample == <<"u", "p", "s", "a", "m", "p", "l", "e">>
T_route == <<"r", "o", "u", "t", "e">>
T_yolo == <<"y", "o", "l", "o">>
V_leaky == <<"l", "e", "a", "k", "y">>

\* the exception of int(d[k]): KeyError, ValueError or none
IntErr(d, k) ==
    IF k \notin DOMAIN d THEN "KeyError"
    ELSE IF ~IsInt(d[k]) THEN "ValueError" ELSE ""

\* the first exception of a sequence of steps
RECURSIVE FirstErr(_)
FirstErr(es) ==
    IF es = <<>> THEN ""
    ELSE IF Head(es) # "" THEN Head(es) ELSE FirstErr(Tail(es))

----------------------------------------------------------------------------
(* create_modules                                                          *)

\* lines 95-121
BuildConvolutional(st, blk) ==
    LET bn == K_batch_normalize \in DOMAIN blk
        e == FirstErr(<<IntErr(blk, K_filters), IntErr(blk, K_size),
                        IntErr(blk, K_stride), IntErr(blk, K_pad),
                        IF K_activation \in DOMAIN blk THEN "" ELSE "KeyError">>)
    IN  IF e # "" THEN [st EXCEPT !.err = e]
        ELSE LET filters == PyInt(blk[K_filters])
                 kernel_size == PyInt(blk[K_size])
                 padding == IF PyInt(blk[K_pad]) # 0
                            THEN (kernel_size - 1) \div 2 ELSE 0
             IN  [st EXCEPT
                    !.module = [type |-> T_convolutional,
                                in_channels |-> st.in_channel,
                                out_channels |-> filters,
                                kernel_size |-> kernel_size,
                                stride |-> PyInt(blk[K_stride]),
                                padding |-> padding,
                                bias |-> ~bn,
                                bn |-> bn,
                                leaky |-> blk[K_activation] = V_leaky],
                    !.out_channel = filters]

\* lines 123-126
BuildShortcut(st, blk) ==
    LET e == IntErr(blk, K_from)
    IN  IF e # "" THEN [st EXCEPT !.err = e]
        ELSE [st EXCEPT !.module = [type |-> T_shortcut,
                                    idx |-> PyInt(blk[K_from]) + st.i]]

\* lines 128-131
BuildUpsample(st, blk) ==
    LET e == IntErr(blk, K_stride)
    IN  IF e # "" THEN [st EXCEPT !.err = e]
        ELSE [st EXCEPT !.module = [type |-> T_upsample,
                                    scale_factor |-> PyInt(blk[K_stride])]]

\* lines 136-137, 140-141: a negative index counts back from position i
Resolve(idx, pos) == IF idx < 0 THEN pos + idx ELSE idx

\* a route that records only its first source's channel count
RouteChannelsFirstOnly(chs, indices) == PyIndex(chs, indices[1])

\* lines 142, 145: the channel count a route records
RouteChannels(chs, indices) ==
    IF Len(indices) > 1
    THEN PyIndex(chs, indices[1]) + PyIndex(chs, indices[2])
    ELSE PyIndex(chs, indices[1])

\* lines 133-148
BuildRoute(st, blk) ==
    IF K_layers \notin DOMAIN blk THEN [st EXCEPT !.err = "KeyError"]
    ELSE
    LET layer_indices == Split(blk[K_layers], ",")
    IN  IF ~IsInt(layer_indices[1]) THEN [st EXCEPT !.err = "ValueError"]
        ELSE
        LET first_idx == Resolve(PyInt(layer_indices[1]), st.i)
        IN  IF Len(layer_indices) > 1
            THEN IF ~IsInt(layer_indices[2]) THEN [st EXCEPT !.err = "ValueError"]
                 ELSE
                 LET second_idx == Resolve(PyInt(layer_indices[2]), st.i)
                 IN  IF ~PyInRange(st.out_channels, first_idx)
                        \/ ~PyInRange(st.out_channels, second_idx)
                     THEN [st EXCEPT !.err = "IndexError"]
                     ELSE [st EXCEPT
                            !.out_channel = RouteChannels(st.out_channels,
                                                          <<first_idx, second_idx>>),
                            !.module = [type |-> T_route,
                                        indices |-> <<first_idx, second_idx>>]]
            ELSE IF ~PyInRange(st.out_channels, first_idx)
                 THEN [st EXCEPT !.err = "IndexError"]
                 ELSE [st EXCEPT
                        !.out_channel = RouteChannels(st.out_channels, <<first_idx>>),
                        !.module = [type |-> T_route, indices |-> <<first_idx>>]]

\* int(seq[k]) raises IndexError, ValueError or nothing
ItemIntErr(seq, k) ==
    IF ~PyInRange(seq, k) THEN "IndexError"
    ELSE IF ~IsInt(PyIndex(seq, k)) THEN "ValueError" ELSE ""

\* line 155: the first exception of the comprehension over masks
AnchorsErr(anchor_strs, masks) ==
    FirstErr([k \in 1..(2 * Len(masks)) |->
                ItemIntErr(anchor_strs, 2 * masks[(k + 1) \div 2] + ((k + 1) % 2))])

\* lines 151-160
BuildYolo(st, blk, net) ==
    IF K_mask \notin DOMAIN blk THEN [st EXCEPT !.err = "KeyError"]
    ELSE
    LET mask_strs == Split(blk[K_mask], ",")
    IN  IF \E k \in 1..Len(mask_strs) : ~IsInt(mask_strs[k])
        THEN [st EXCEPT !.err = "ValueError"]
        ELSE IF K_anchors \notin DOMAIN blk THEN [st EXCEPT !.err = "KeyError"]
        ELSE
        LET masks == [k \in 1..Len(mask_strs) |-> PyInt(mask_strs[k])]
            anchor_strs == Split(blk[K_anchors], ",")
        IN  IF AnchorsErr(anchor_strs, masks) # ""
            THEN [st EXCEPT !.err = AnchorsErr(anchor_strs, masks)]
            ELSE
            LET e == FirstErr(<<IntErr(blk, K_classes), IntErr(net, K_width)>>)
            IN  IF e # "" THEN [st EXCEPT !.err = e]
                ELSE [st EXCEPT
                       !.module =
                         [type |-> T_yolo,
                          anchors |-> [k \in 1..Len(masks) |->
                                         <<PyInt(PyIndex(anchor_strs, 2 * masks[k])),
                                           PyInt(PyIndex(anchor_strs, 2 * masks[k] + 1))>>],
                          num_classes |-> PyInt(blk[K_classes]),
                          num_anchors |-> Len(masks),
                          input_dim |-> PyInt(net[K_width])]]

\* lines 93-160: the branch taken for block_type; any other type builds an
\* empty nn.Sequential
BuildModule(st, blk, net) ==
    IF K_type \notin DOMAIN blk THEN [st EXCEPT !.err = "KeyError"]
    ELSE LET block_type == blk[K_type]
             st0 == [st EXCEPT !.module = [type |-> block_type]]
         IN  IF block_type = T_convolutional THEN BuildConvolutional(st0, blk)
             ELSE IF block_type = T_shortcut THEN BuildShortcut(st0, blk)
             ELSE IF block_type = T_upsample THEN BuildUpsample(st0, blk)
             ELSE IF block_type = T_route THEN BuildRoute(st0, blk)
             ELSE IF block_type = T_yolo THEN BuildYolo(st0, blk, net)
             ELSE st0

\* lines 162-164: the bookkeeping that ends an iteration
BuildAppend(st) ==
    [st EXCEPT !.out_channels = Append(st.out_channels, st.out_channel),
               !.in_channel = st.out_channel,
               !.module_list = Append(st.module_list, st.module),
               !.i = st.i + 1]

\* lines 92-164: one iteration of the loop
BuildStep(st, blk, net) ==
    LET r == BuildModule(st, blk, net)
    IN  IF r.err # "" THEN r ELSE BuildAppend(r)

\* lines 86-90
BuildStart ==
    [i |-> 0, in_channel |-> 3, out_channel |-> 3, out_channels |-> <<>>,
     module_list |-> <<>>, module |-> <<>>, err |-> ""]

RECURSIVE BuildLoop(_, _, _)
BuildLoop(st, blks, net) ==
    IF blks = <<>> \/ st.err # "" THEN st
    ELSE BuildLoop(BuildStep(st, Head(blks), net), Tail(blks), net)

\* lines 85-166: create_modules(blocks)
CreateModules(blks) == BuildLoop(BuildStart, Tail(blks), blks[1])

----------------------------------------------------------------------------
(* The blocks create_modules is run on                                     *)

MaxBlocks == 3
MaxFilters == 2
MaxRef == 3

\* dict(pairs)
RECURSIVE MkDict(_)
MkDict(pairs) ==
    IF pairs = <<>> THEN EmptyDict
    ELSE LET last == pairs[Len(pairs)]
         IN  DictSet(MkDict(SubSeq(pairs, 1, Len(pairs) - 1)), last[1], last[2])

NetBlock(width) == MkDict(<<<<K_type, T_net>>, <<K_width, IntStr(width)>>>>)

ConvBlock(filters, size, bn) ==
    MkDict(<<<<K_type, T_convolutional>>, <<K_filters, IntStr(filters)>>,
             <<K_size, IntStr(size)>>, <<K_stride, <<"1">>>>, <<K_pad, <<"1">>>>,
             <<K_activation, V_leaky>>>>
           \o (IF bn THEN <<<<K_batch_normalize, <<"1">>>>>> ELSE <<>>))

ShortcutBlock(from) == MkDict(<<<<K_type, T_shortcut>>, <<K_from, from>>>>)

UpsampleBlock(stride) == MkDict(<<<<K_type, T_upsample>>, <<K_stride, IntStr(stride)>>>>)

RouteBlock(layers) == MkDict(<<<<K_type, T_route>>, <<K_layers, layers>>>>)

YoloBlock(mask, anchors, classes) ==
    MkDict(<<<<K_type, T_yolo>>, <<K_mask, mask>>, <<K_anchors, anchors>>,
             <<K_classes, IntStr(classes)>>>>)

\* relative and absolute layer references, in and out of range
RefValues == (0 - MaxRef)..1

BuildBlocks ==
    {ConvBlock(f, 3, bn) : f \in 1..MaxFilters, bn \in BOOLEAN}
    \cup {ShortcutBlock(IntStr(r)) : r \in RefValues}
    \cup {ShortcutBlock(<<"k">>), MkDict(<<<<K_type, T_convolutional>>>>)}
    \cup {UpsampleBlock(2)}
    \cup {RouteBlock(IntStr(r)) : r \in RefValues \cup {-100}}
    \cup {RouteBlock(<<"-", "1", ",">> \o IntStr(r)) : r \in RefValues}
    \cup {YoloBlock(<<"0">>, <<"1", "0", ",", "1", "3">>, 1)}

BuildInit ==
    /\ pc = "build" /\ err = ""
    /\ nlines = 0 /\ blocks = <<NetBlock(416)>> /\ block = EmptyDict /\ line = <<>>
    /\ i = BuildStart.i /\ net_info = NetBlock(416)
    /\ in_channel = BuildStart.in_channel /\ out_channel = BuildStart.out_channel
    /\ out_channels = BuildStart.out_channels
    /\ module_list = BuildStart.module_list
    /\ fi = 0 /\ x = <<>> /\ outputs = <<>> /\ detection = <<>> /\ store = <<>>
    /\ li = 0 /\ weights = <<>> /\ ptr = 0 /\ params = <<>>

\* the state of the loop of create_modules
BuildState ==
    [i |-> i, in_channel |-> in_channel, out_channel |-> out_channel,
     out_channels |-> out_channels, module_list |-> module_list,
     module |-> <<>>, err |-> ""]

\* lines 92-164: the loop takes the next block of blocks[1:]
BuildBlock ==
    /\ pc = "build"
    /\ i < MaxBlocks
    /\ \E blk \in BuildBlocks :
         LET r == BuildStep(BuildState, blk, net_info)
         IN  /\ blocks' = Append(blocks, blk)
             /\ i' = r.i
             /\ in_channel' = r.in_channel
             /\ out_channel' = r.out_channel
             /\ out_channels' = r.out_channels
             /\ module_list' = r.module_list
             /\ err' = r.err
             /\ pc' = IF r.err = "" THEN "build" ELSE "build_raised"
    /\ UNCHANGED <<nlines, block, line, net_info, fwdVars, loadVars>>

\* line 166
BuildReturn ==
    /\ pc = "build"
    /\ pc' = "build_returned"
    /\ UNCHANGED <<err, parseVars, buildVars, fwdVars, loadVars>>

BuildNext == BuildBlock \/ BuildReturn

SpecBuild == BuildInit /\ [][BuildNext]_vars

----------------------------------------------------------------------------
(* Darknet.load_weights.  The k-th float of the file is modelled as the    *)
(* number k, and every element a parameter tensor got at construction as   *)
(* 0, so a tensor shows which floats of the file, if any, it holds.        *)

MaxLayers == 2
MaxWeights == 40

Min(a, b) == IF a < b THEN a ELSE b

Zeros(n) == [k \in 1..n |-> 0]

\* the parameter tensors nn.Conv2d and nn.BatchNorm2d create (lines 113, 117)
ModuleParams(m) ==
    IF m.type = T_convolutional
    THEN [weight |-> Zeros(m.out_channels * m.in_channels * m.kernel_size * m.kernel_size),
          bias |-> IF m.bias THEN Zeros(m.out_channels) ELSE <<>>,
          bn_weight |-> IF m.bn THEN Zeros(m.out_channels) ELSE <<>>,
          bn_bias |-> IF m.bn THEN Zeros(m.out_channels) ELSE <<>>,
          running_mean |-> IF m.bn THEN Zeros(m.out_channels) ELSE <<>>,
          running_var |-> IF m.bn THEN Zeros(m.out_channels) ELSE <<>>]
    ELSE [weight |-> <<>>, bias |-> <<>>, bn_weight |-> <<>>, bn_bias |-> <<>>,
          running_mean |-> <<>>, running_var |-> <<>>]

\* tensor.numel()
Numel(t) == Len(t)

\* weights[a: a + n]: numpy cuts a slice off at the end of the array
NpSlice(w, a, n) == SubSeq(w, a + 1, Min(a + n, Len(w)))

\* a view that takes whatever the slice holds
ViewAsUnchecked(slice, t) == TRUE

\* torch.from_numpy(slice).view_as(t) does not raise
ViewAsOk(slice, t) == Len(slice) = Numel(t)

\* a cursor that is never moved
AdvanceStuck(p, n) == p

\* ptr += n
Advance(p, n) == p + n

\* lines 208-224: the four normalization slices are taken, then copied
LoadBatchNorm(prm, w, p) ==
    LET num_weights == Numel(prm.bn_weight)
        p1 == Advance(p, num_weights)
        p2 == Advance(p1, num_weights)
        p3 == Advance(p2, num_weights)
        p4 == Advance(p3, num_weights)
        bn_bias == NpSlice(w, p, num_weights)
        bn_weight == NpSlice(w, p1, num_weights)
        bn_running_mean == NpSlice(w, p2, num_weights)
        bn_running_var == NpSlice(w, p3, num_weights)
    IN  IF ~ViewAsOk(bn_bias, prm.bn_bias)
        THEN [ptr |-> p, prm |-> prm, err |-> "RuntimeError"]
        ELSE IF ~ViewAsOk(bn_weight, prm.bn_weight)
        THEN [ptr |-> p1, prm |-> prm, err |-> "RuntimeError"]
        ELSE IF ~ViewAsOk(bn_running_mean, prm.running_mean)
        THEN [ptr |-> p2, prm |-> prm, err |-> "RuntimeError"]
        ELSE IF ~ViewAsOk(bn_running_var, prm.running_var)
        THEN [ptr |-> p3, prm |-> prm, err |-> "RuntimeError"]
        ELSE [ptr |-> p4,
              prm |-> [prm EXCEPT !.bn_weight = bn_weight, !.bn_bias = bn_bias,
                                  !.running_mean = bn_running_mean,
                                  !.running_var = bn_running_var],
              err |-> ""]

\* lines 226-229
LoadBias(prm, w, p) ==
    LET num_bias == Numel(prm.bias)
        conv_bias == NpSlice(w, p, num_bias)
    IN  IF ~ViewAsOk(conv_bias, prm.bias)
        THEN [ptr |-> p, prm |-> prm, err |-> "RuntimeError"]
        ELSE [ptr |-> Advance(p, num_bias),
              prm |-> [prm EXCEPT !.bias = conv_bias], err |-> ""]

\* lines 231-234
LoadKernel(prm, w, p) ==
    LET num_weights == Numel(prm.weight)
        conv_weight == NpSlice(w, p, num_weights)
    IN  IF ~ViewAsOk(conv_weight, prm.weight)
        THEN [ptr |-> p, prm |-> prm, err |-> "RuntimeError"]
        ELSE [ptr |-> Advance(p, num_weights),
              prm |-> [prm EXCEPT !.weight = conv_weight], err |-> ""]

\* lines 202-234: one iteration of the loop, on the block self.blocks[i+1]
LoadModule(blk, prm, w, p) ==
    IF blk[K_type] = T_convolutional
    THEN LET r == IF K_batch_normalize \in DOMAIN blk
                  THEN LoadBatchNorm(prm, w, p) ELSE LoadBias(prm, w, p)
         IN  IF r.err # "" THEN r ELSE LoadKernel(r.prm, w, r.ptr)
    ELSE [ptr |-> p, prm |-> prm, err |-> ""]

LoadBlocks ==
    {ConvBlock(f, 2, bn) : f \in 1..MaxFilters, bn \in BOOLEAN}
    \cup {ShortcutBlock(<<"-", "1">>), UpsampleBlock(2), RouteBlock(<<"-", "1">>),
          YoloBlock(<<"0">>, <<"1", "0", ",", "1", "3">>, 1)}

\* the configs Darknet.__init__ builds a network from
LoadConfigs ==
    {c \in UNION {[1..n -> LoadBlocks] : n \in 0..MaxLayers} :
        CreateModules(<<NetBlock(416)>> \o c).err = ""}

\* lines 169-172 and 195-199: the network is built, the file read (its
\* five-int header is kept aside and plays no part in the loop), ptr = 0
LoadInit ==
    /\ pc = "load" /\ err = ""
    /\ nlines = 0 /\ block = EmptyDict /\ line = <<>>
    /\ \E c \in LoadConfigs, n \in 0..MaxWeights :
         LET built == CreateModules(<<NetBlock(416)>> \o c)
         IN  /\ blocks = <<NetBlock(416)>> \o c
             /\ net_info = NetBlock(416)
             /\ i = built.i
             /\ in_channel = built.in_channel
             /\ out_channel = built.out_channel
             /\ out_channels = built.out_channels
             /\ module_list = built.module_list
             /\ params = [p \in 1..Len(built.module_list) |->
                            ModuleParams(built.module_list[p])]
             /\ weights = [k \in 1..n |-> k]
    /\ fi = 0 /\ x = <<>> /\ outputs = <<>> /\ detection = <<>> /\ store = <<>>
    /\ li = 0 /\ ptr = 0

\* lines 201-234: the loop takes module li
LoadLayer ==
    /\ pc = "load"
    /\ li < Len(module_list)
    /\ LET r == LoadModule(blocks[li + 2], params[li + 1], weights, ptr)
       IN  /\ ptr' = r.ptr
           /\ params' = [params EXCEPT ![li + 1] = r.prm]
           /\ err' = r.err
           /\ li' = IF r.err = "" THEN li + 1 ELSE li
           /\ pc' = IF r.err = "" THEN "load" ELSE "load_raised"
    /\ UNCHANGED <<weights, parseVars, buildVars, fwdVars>>

\* the loop is over
LoadReturn ==
    /\ pc = "load"
    /\ li = Len(module_list)
    /\ pc' = "load_returned"
    /\ UNCHANGED <<err, parseVars, buildVars, fwdVars, loadVars>>

LoadNext == LoadLayer \/ LoadReturn

SpecLoad == LoadInit /\ [][LoadNext]_vars

----------------------------------------------------------------------------
(* Darknet.forward.  A tensor is a shape and the storage it reads and      *)
(* writes (sid); store[sid] numbers the contents of that storage, and an   *)
(* operation that writes into a storage gives it a number never used       *)
(* before.  Two tensors with one sid are views of the same memory.  The    *)
(* rows of a detection tensor are kept as runs [layer, n]: n rows decoded  *)
(* by the yolo layer at that 0-based position.                             *)

MaxFwdLayers == 4

RECURSIVE Prod(_)
Prod(shape) == IF shape = <<>> THEN 1 ELSE Head(shape) * Prod(Tail(shape))

RECURSIVE MaxOf(_)
MaxOf(seq) ==
    IF seq = <<>> THEN 0
    ELSE IF Head(seq) > MaxOf(Tail(seq)) THEN Head(seq) ELSE MaxOf(Tail(seq))

\* contents no storage has held before
Fresh(st) == MaxOf(st) + 1

Failed(e, t, st) == [err |-> e, x |-> t, store |-> st]

\* the result is a new tensor in a storage of its own
NewTensor(shape, st) ==
    [err |-> "", x |-> [sid |-> Len(st) + 1, shape |-> shape],
     store |-> Append(st, Fresh(st))]

\* an in-place write into the storage of t
WriteInPlace(t, st) ==
    [err |-> "", x |-> t, store |-> [st EXCEPT ![t.sid] = Fresh(st)]]

\* lines 113-119 run on t: nn.Conv2d, then nn.BatchNorm2d (in training
\* mode, which wants more than one value per channel), then nn.LeakyReLU
\* in place on the tensor the stage before it made.  A 3-D t is the output
\* of a yolo layer, (batch, rows, 5 + classes): read as an unbatched image
\* its channel count is batch = 1, never in_channels, so nn.Conv2d raises
ConvForward(m, t, st) ==
    IF Len(t.shape) # 4 \/ t.shape[2] # m.in_channels
    THEN Failed("RuntimeError", t, st)
    ELSE LET h == (t.shape[3] + 2 * m.padding - m.kernel_size) \div m.stride + 1
             w == (t.shape[4] + 2 * m.padding - m.kernel_size) \div m.stride + 1
         IN  IF h <= 0 \/ w <= 0 THEN Failed("RuntimeError", t, st)
             ELSE IF m.bn /\ t.shape[1] * h * w <= 1 THEN Failed("ValueError", t, st)
             ELSE NewTensor(<<t.shape[1], m.out_channels, h, w>>, st)

\* line 130 run on t: bilinear interpolation takes 4-D input only
UpsampleForward(m, t, st) ==
    IF Len(t.shape) # 4 THEN Failed("NotImplementedError", t, st)
    ELSE NewTensor(<<t.shape[1], t.shape[2],
                     t.shape[3] * m.scale_factor, t.shape[4] * m.scale_factor>>, st)

\* src broadcasts to the shape of dst (the in-place dst += src is allowed)
Broadcasts(src, dst) ==
    /\ Len(src) <= Len(dst)
    /\ \A k \in 1..Len(src) :
          LET d == dst[Len(dst) - Len(src) + k]
          IN  src[k] = d \/ src[k] = 1

\* lines 35-36 and 183: x += outputs[idx]
ShortcutForward(m, t, outs, st) ==
    IF ~PyInRange(outs, m.idx) THEN Failed("IndexError", t, st)
    ELSE IF ~Broadcasts(PyIndex(outs, m.idx).shape, t.shape)
    THEN Failed("RuntimeError", t, st)
    ELSE WriteInPlace(t, st)

\* torch.cat(ts, dim=1) is allowed: equal shapes but for dimension 1
CatOk(a, b) ==
    /\ Len(a) = Len(b) /\ Len(a) >= 2
    /\ \A k \in 1..Len(a) : k = 2 \/ a[k] = b[k]

\* lines 43-46: the named outputs, concatenated into a new tensor
RouteForward(m, t, outs, st) ==
    IF \E k \in 1..Len(m.indices) : ~PyInRange(outs, m.indices[k])
    THEN Failed("IndexError", t, st)
    ELSE LET a == PyIndex(outs, m.indices[1]).shape
         IN  IF Len(m.indices) = 1
             THEN IF Len(a) < 2 THEN Failed("IndexError", t, st) ELSE NewTensor(a, st)
             ELSE LET b == PyIndex(outs, m.indices[2]).shape
                  IN  IF ~CatOk(a, b) THEN Failed("RuntimeError", t, st)
                      ELSE NewTensor([a EXCEPT ![2] = a[2] + b[2]], st)

\* line 61: x.view(batch_size, num_anchors, num_classes + 5, grid_size, grid_size)
ViewShape(m, t) ==
    <<t.shape[1], m.num_anchors, m.num_classes + 5, t.shape[3], t.shape[3]>>

\* a view that takes any number of elements
ViewOkAnySize(m, t) == TRUE

\* line 61 does not raise: the view has as many elements as x
ViewOk(m, t) == m.num_classes + 5 >= 0 /\ Prod(ViewShape(m, t)) = Prod(t.shape)

\* lines 56-83: the view of x is decoded in place, so into the storage of
\* x; the anchors expand over channels 2:4 only when there are two of them;
\* .contiguous() copies unless the transposed view is already contiguous
DetectionForward(m, t, st) ==
    IF Len(t.shape) < 3 THEN Failed("IndexError", t, st)
    ELSE IF t.shape[3] = 0 THEN Failed("ZeroDivisionError", t, st)
    ELSE IF ~ViewOk(m, t)
    THEN Failed("RuntimeError", t, st)
    ELSE IF m.num_classes + 5 < 4
    THEN Failed("RuntimeError", t, WriteInPlace(t, st).store)
    ELSE LET written == WriteInPlace(t, st).store
             shape == <<t.shape[1], m.num_anchors * t.shape[3] * t.shape[3],
                        m.num_classes + 5>>
         IN  IF m.num_anchors = 1 \/ m.num_classes + 5 = 1
             THEN [err |-> "", x |-> [sid |-> t.sid, shape |-> shape], store |-> written]
             ELSE NewTensor(shape, written)

\* a concatenation that puts the old rows first
DetectionCatAppended(t, layer, det) ==
    IF det.shape = <<0>>
    THEN [err |-> "", detection |-> [shape |-> t.shape,
                                    rows |-> <<[layer |-> layer, n |-> t.shape[2]]>>]]
    ELSE IF Len(t.shape) # Len(det.shape) \/ t.shape[1] # det.shape[1]
            \/ t.shape[3] # det.shape[3]
    THEN [err |-> "RuntimeError", detection |-> det]
    ELSE [err |-> "",
          detection |-> [shape |-> [t.shape EXCEPT ![2] = t.shape[2] + det.shape[2]],
                         rows |-> det.rows \o <<[layer |-> layer, n |-> t.shape[2]]>>]]

\* line 188: detection = torch.cat((x, detection), dim=1); an empty 1-D
\* tensor is skipped by torch.cat
DetectionCat(t, layer, det) ==
    IF det.shape = <<0>>
    THEN [err |-> "", detection |-> [shape |-> t.shape,
                                    rows |-> <<[layer |-> layer, n |-> t.shape[2]]>>]]
    ELSE IF ~CatOk(t.shape, det.shape) THEN [err |-> "RuntimeError", detection |-> det]
    ELSE [err |-> "",
          detection |-> [shape |-> [t.shape EXCEPT ![2] = t.shape[2] + det.shape[2]],
                         rows |-> <<[layer |-> layer, n |-> t.shape[2]]>> \o det.rows]]

\* lines 179-188: the branch taken for block_type
ForwardModule(block_type, m, t, outs, st) ==
    IF block_type = T_convolutional THEN ConvForward(m, t, st)
    ELSE IF block_type = T_upsample THEN UpsampleForward(m, t, st)
    ELSE IF block_type = T_shortcut THEN ShortcutForward(m, t, outs, st)
    ELSE IF block_type = T_route THEN RouteForward(m, t, outs, st)
    ELSE IF block_type = T_yolo THEN DetectionForward(m, t, st)
    ELSE [err |-> "", x |-> t, store |-> st]

\* the input of the end-to-end scenario
InputShape == <<1, 3, 416, 416>>

FwdBlocks ==
    {ConvBlock(16, 3, FALSE), ConvBlock(6, 3, FALSE), ConvBlock(6, 1, TRUE),
     YoloBlock(<<"0">>, <<"1", "0", ",", "1", "3">>, 1),
     RouteBlock(<<"-", "2">>), ShortcutBlock(<<"-", "1">>),
     ShortcutBlock(<<"-", "2">>), UpsampleBlock(2)}

\* the configs Darknet.__init__ builds a network from
FwdConfigs ==
    {c \in UNION {[1..n -> FwdBlocks] : n \in 0..MaxFwdLayers} :
        CreateModules(<<NetBlock(416)>> \o c).err = ""}

\* lines 169-172 and 175-177: the network is built; forward starts on x
FwdInit ==
    /\ pc = "forward" /\ err = ""
    /\ nlines = 0 /\ block = EmptyDict /\ line = <<>>
    /\ \E c \in FwdConfigs :
         LET built == CreateModules(<<NetBlock(416)>> \o c)
         IN  /\ blocks = <<NetBlock(416)>> \o c
             /\ net_info = NetBlock(416)
             /\ i = built.i
             /\ in_channel = built.in_channel
             /\ out_channel = built.out_channel
             /\ out_channels = built.out_channels
             /\ module_list = built.module_list
    /\ fi = 0
    /\ x = [sid |-> 1, shape |-> InputShape]
    /\ store = <<1>>
    /\ outputs = <<>>
    /\ detection = [shape |-> <<0>>, rows |-> <<>>]
    /\ li = 0 /\ weights = <<>> /\ ptr = 0 /\ params = <<>>

\* lines 178-190: the loop runs module fi and appends x to outputs
ForwardLayer ==
    /\ pc = "forward"
    /\ fi < Len(module_list)
    /\ LET block_type == blocks[fi + 2][K_type]
           r == ForwardModule(block_type, module_list[fi + 1], x, outputs, store)
           d == IF r.err = "" /\ block_type = T_yolo
                THEN DetectionCat(r.x, fi, detection)
                ELSE [err |-> r.err, detection |-> detection]
       IN  /\ store' = r.store
           /\ detection' = d.detection
           /\ err' = d.err
           /\ x' = IF r.err = "" THEN r.x ELSE x
           /\ outputs' = IF d.err = "" THEN Append(outputs, r.x) ELSE outputs
           /\ fi' = IF d.err = "" THEN fi + 1 ELSE fi
           /\ pc' = IF d.err = "" THEN "forward" ELSE "forward_raised"
    /\ UNCHANGED <<parseVars, buildVars, loadVars>>

\* line 192
ForwardReturn ==
    /\ pc = "forward"
    /\ fi = Len(module_list)
    /\ pc' = "forward_returned"
    /\ UNCHANGED <<err, parseVars, buildVars, fwdVars, loadVars>>

ForwardNext == ForwardLayer \/ ForwardReturn

SpecFwd == FwdInit /\ [][ForwardNext]_vars

----------------------------------------------------------------------------
(* C3: parse_cfg raises whenever a non-bracket line comes before any       *)
(* [name] header, and whenever a non-bracket line does not split into      *)
(* exactly one key and one value around "=".  Stated on the state after    *)
(* the loop took a non-bracket line and went on: a header had opened the   *)
(* block (only a header can store the key "type": no line over Chars       *)
(* spells it) and the line split in two.                                   *)
C3_RaisesOnStrayOrMalformedLine ==
    (pc = "parse" /\ nlines > 0 /\ line # <<>> /\ line[1] # "[")
        => /\ K_type \in DOMAIN block
           /\ Len(Split(line, "=")) = 2

----------------------------------------------------------------------------
(* C1: every shortcut layer create_modules builds at position i (0-based)  *)
(* has its resolved index idx = from + i in [0, i); a from that resolves   *)
(* outside makes the build fail, so no such layer is ever in module_list.  *)
C1_ShortcutIndexInRange ==
    \A p \in 1..Len(module_list) :
        module_list[p].type = T_shortcut
            => module_list[p].idx \in 0..(p - 2)

(* C2: every route layer create_modules builds at position i has all its   *)
(* resolved indices in [0, i); an index that resolves outside makes the    *)
(* build fail, so no such layer is ever in module_list.  (Checked on the   *)
(* networks whose shortcuts are all in range.)                             *)
C2_RouteIndexInRange ==
    \A p \in 1..Len(module_list) :
        (C1_ShortcutIndexInRange /\ module_list[p].type = T_route)
            => \A k \in 1..Len(module_list[p].indices) :
                   module_list[p].indices[k] \in 0..(p - 2)

(* C7: in the built network a convolution's in_channels is the recorded    *)
(* output channel count of the layer before it (3 for the first layer),    *)
(* and a shortcut's source layer has the same recorded channel count as    *)
(* the layer before the shortcut.  (Checked on the networks whose          *)
(* shortcut and route indices are all in range.)                           *)
C7_ChannelsAgree ==
    (C1_ShortcutIndexInRange /\ C2_RouteIndexInRange) =>
    \A p \in 1..Len(module_list) :
        /\ module_list[p].type = T_convolutional
             => module_list[p].in_channels = (IF p = 1 THEN 3 ELSE out_channels[p - 1])
        /\ (module_list[p].type = T_shortcut /\ module_list[p].idx \in 0..(p - 2))
             => out_channels[module_list[p].idx + 1] = out_channels[p - 1]

\* the sum of the recorded channel counts of the layers a route names
RECURSIVE SumRecorded(_, _)
SumRecorded(chs, indices) ==
    IF indices = <<>> THEN 0
    ELSE PyIndex(chs, Head(indices)) + SumRecorded(chs, Tail(indices))

(* C9: a route layer with one index records the recorded channel count of  *)
(* that layer, one with two indices the sum of the two recorded counts,    *)
(* and the recorded value is in_channel for the next layer built.          *)
C9_RouteRecordsChannels ==
    \A p \in 1..Len(module_list) :
        module_list[p].type = T_route
            => /\ out_channels[p] =
                     SumRecorded(SubSeq(out_channels, 1, p - 1), module_list[p].indices)
               /\ (p = Len(module_list) /\ pc # "build_raised")
                     => in_channel = out_channels[p]
               /\ (p < Len(module_list) /\ module_list[p + 1].type = T_convolutional)
                     => module_list[p + 1].in_channels = out_channels[p]

\* a route over two different layers of different widths has been built
C9_Witness ==
    \E p \in 1..Len(module_list) :
        /\ module_list[p].type = T_route
        /\ module_list[p].indices = <<1, 0>>
        /\ out_channels[1] # out_channels[2]
        /\ out_channels[p] = out_channels[1] + out_channels[2]
        /\ in_channel = out_channels[p]

\* a one-index route followed by a convolution has been built
C9_WitnessNext ==
    \E p \in 1..(Len(module_list) - 1) :
        /\ module_list[p].type = T_route
        /\ Len(module_list[p].indices) = 1
        /\ module_list[p + 1].type = T_convolutional

----------------------------------------------------------------------------
\* what the config says layer p (1-based) consumes: 4*filters or filters,
\* plus out_channels * in_channels * kernel_h * kernel_w; 0 when not a
\* convolution
ConfigFloats(p) ==
    LET blk == blocks[p + 1]
        filters == PyInt(blk[K_filters])
        inch == IF p = 1 THEN 3 ELSE out_channels[p - 1]
        k == PyInt(blk[K_size])
    IN  IF blk[K_type] # T_convolutional THEN 0
        ELSE (IF K_batch_normalize \in DOMAIN blk THEN 4 * filters ELSE filters)
             + filters * inch * k * k

RECURSIVE ConfigFloatsUpTo(_)
ConfigFloatsUpTo(n) == IF n = 0 THEN 0 ELSE ConfigFloatsUpTo(n - 1) + ConfigFloats(n)

(* C4: ptr starts at 0, never decreases, and after each layer has advanced *)
(* by 4*num_filters + out*in*kh*kw for a convolution with batch_normalize, *)
(* by num_output_channels + out*in*kh*kw for one without, and by 0 for any *)
(* other layer: after li layers it is the sum of these; where the load     *)
(* raised, it lies between the sums before and after that layer.           *)
C4_CursorAdvance ==
    /\ pc \in {"load", "load_returned"} => ptr = ConfigFloatsUpTo(li)
    /\ pc = "load_raised"
         => /\ ConfigFloatsUpTo(li) <= ptr
            /\ ptr < ConfigFloatsUpTo(li + 1)

\* a convolution with batch_normalize, then one without, both loaded
C4_Witness ==
    /\ pc = "load_returned"
    /\ li = 2
    /\ module_list[1].type = T_convolutional /\ module_list[1].bn
    /\ module_list[2].type = T_convolutional /\ ~module_list[2].bn
    /\ module_list[2].kernel_size = 2
    /\ ptr = Len(weights)

\* the parameter tensors of the network, as (layer, name) pairs
ParamNames == {"weight", "bias", "bn_weight", "bn_bias", "running_mean", "running_var"}

\* tensor t holds exactly the floats a+1 .. a+Len(t) of the file
IsFileSlice(t) ==
    \E a \in 0..Len(weights) :
        /\ a + Len(t) <= Len(weights)
        /\ \A k \in 1..Len(t) : t[k] = weights[a + k]

(* C5: load_weights raises whenever the next slice would take the cursor   *)
(* past the end of the floats, so the cursor of a load that goes on or     *)
(* returns is never past the end; and every parameter tensor keeps its     *)
(* element count and holds either what it held at construction or one      *)
(* whole slice of the file, never a short slice or floats from outside.    *)
C5_RaisesOnTruncatedBlob ==
    /\ pc \in {"load", "load_returned"} => ptr <= Len(weights)
    /\ pc = "load_returned" => ConfigFloatsUpTo(Len(module_list)) <= Len(weights)
    /\ pc \in {"load", "load_returned", "load_raised"} =>
         \A p \in 1..Len(params) : \A nm \in ParamNames :
            /\ Len(params[p][nm]) = Len(ModuleParams(module_list[p])[nm])
            /\ \/ params[p][nm] = ModuleParams(module_list[p])[nm]
               \/ IsFileSlice(params[p][nm])

\* the file ends inside a kernel: the load raised there, after the
\* normalization tensors were filled
C5_Witness ==
    /\ pc = "load_raised"
    /\ module_list[li + 1].bn
    /\ params[li + 1].bn_bias # ModuleParams(module_list[li + 1]).bn_bias
    /\ params[li + 1].weight = ModuleParams(module_list[li + 1]).weight
    /\ ptr < Len(weights)
    /\ Len(weights) < ptr + Numel(params[li + 1].weight)

----------------------------------------------------------------------------
\* the yolo layers forward has run so far, as 0-based positions
YolosRun == {p \in 0..(fi - 1) : blocks[p + 2][K_type] = T_yolo}

\* the original statement of C6: the rows of an earlier-built yolo layer
\* come before the rows of every later-built one
C6_RowsInBuildOrder ==
    \A a, b \in 1..Len(detection.rows) :
        a < b => detection.rows[a].layer < detection.rows[b].layer

(* C6, amended: the detections tensor holds the decoded rows of every yolo *)
(* layer run so far, in reverse build order: the rows of a later-built     *)
(* yolo layer come before the rows of every earlier-built one.             *)
C6_RowsInReverseBuildOrder ==
    pc \in {"forward", "forward_returned"} =>
        /\ {detection.rows[a].layer : a \in 1..Len(detection.rows)} = YolosRun
        /\ \A a, b \in 1..Len(detection.rows) :
              a < b => detection.rows[a].layer > detection.rows[b].layer
        /\ \A a \in 1..Len(detection.rows) :
              detection.rows[a].n = outputs[detection.rows[a].layer + 1].shape[2]

\* forward returned the rows of two yolo layers
C6_Witness ==
    /\ pc = "forward_returned"
    /\ Len(detection.rows) = 2
    /\ detection.shape = <<1, 2 * 416 * 416, 6>>

\* the config file of the end-to-end scenario
C8Lines ==
    << <<"[", "n", "e", "t", "]">>,
       <<"w", "i", "d", "t", "h", "=", "4", "1", "6">>,
       <<>>,
       <<"[", "c", "o", "n", "v", "o", "l", "u", "t", "i", "o", "n", "a", "l", "]">>,
       <<"f", "i", "l", "t", "e", "r", "s", "=", "1", "6">>,
       <<"s", "i", "z", "e", "=", "3">>,
       <<"s", "t", "r", "i", "d", "e", "=", "1">>,
       <<"p", "a", "d", "=", "1">>,
       <<"a", "c", "t", "i", "v", "a", "t", "i", "o", "n", "=", "l", "e", "a", "k", "y">>,
       <<>>,
       <<"[", "y", "o", "l", "o", "]">>,
       <<"m", "a", "s", "k", "=", "0">>,
       <<"a", "n", "c", "h", "o", "r", "s", "=", "1", "0", ",", "1", "3">>,
       <<"c", "l", "a", "s", "s", "e", "s", "=", "1">> >>

C8Config == ParseCfg(C8Lines).blocks

\* the same config with filters=6 = anchors * (5 + classes)
C8ConfigSix == [C8Config EXCEPT ![2] = DictSet(C8Config[2], K_filters, <<"6">>)]

\* the original statement of C8: on the 3-block config forward completes
\* and returns a tensor of shape (1, 416*416, 6)
C8_ForwardReturnsDetections ==
    (blocks = C8Config /\ pc # "forward")
        => /\ pc = "forward_returned"
           /\ Len(module_list) = 2
           /\ detection.shape = <<1, 416 * 416, 6>>

(* C8, amended: on the 3-block config create_modules builds exactly 2      *)
(* layers and forward on a (1,3,416,416) input never returns: it raises    *)
(* in the yolo layer, whose reshape of its (1,16,416,416) input to         *)
(* (1,1,6,416,416) fails, 16 not being anchors * (5 + classes) = 6.  With  *)
(* filters=6 forward returns a tensor of shape (1, 416*416, 6).            *)
C8_ForwardRaisesInYolo ==
    /\ blocks = C8Config =>
         /\ Len(module_list) = 2
         /\ pc # "forward_returned"
         /\ pc = "forward_raised" =>
              /\ fi = 1
              /\ x.shape = <<1, 16, 416, 416>>
              /\ ~ViewOk(module_list[2], x)
              /\ detection.rows = <<>>
    /\ (blocks = C8ConfigSix /\ pc # "forward") =>
         /\ pc = "forward_returned"
         /\ detection.shape = <<1, 416 * 416, 6>>

\* forward raised in the yolo layer of the 3-block config
C8_Witness ==
    /\ blocks = C8Config
    /\ pc = "forward_raised"
    /\ fi = 1
    /\ Len(outputs) = 1 /\ outputs[1].shape = <<1, 16, 416, 416>>

\* forward returned on the 3-block config with filters=6
C8_WitnessSix ==
    /\ blocks = C8ConfigSix
    /\ pc = "forward_returned"

(* C10: once layer j's output is appended as outputs[j], no later layer    *)
(* changes the contents of outputs[j], and the caller's input tensor       *)
(* (storage 1) is never changed.                                           *)
C10_HistoryImmutable ==
    [][/\ \A j \in 1..Len(outputs) : store'[outputs[j].sid] = store[outputs[j].sid]
       /\ (store # <<>> /\ store' # <<>>) => store'[1] = store[1]]_vars

====
